---- MODULE Spec2Model ----
(***************************************************************************)
(* Model of the confidential-transfer command line driver (src/src).        *)
(*                                                                          *)
(* One CLI invocation is a process: main's Cli::parse followed by           *)
(* commands::handle_command -> <cmd>::execute.  Every handler is async and  *)
(* is suspended at each RPC call it awaits; any number of processes may be  *)
(* suspended at once, and what another process sends may land between two   *)
(* calls of a handler.  One action is the answer to one awaited call with   *)
(* the handler's own code up to its next call or its return, so a handler   *)
(* takes as many actions as it awaits calls: create-mint and create-account *)
(* three (rent, block hash, send), deposit, apply-balance and withdraw four *)
(* (account, mint, block hash, send), balance two (account, mint),          *)
(* confidential-transfer three (source, destination, mint).  `inflight` is  *)
(* the bag of suspended handlers, each with what its fetches returned;      *)
(* a handler computes from that copy, and its transaction is processed by   *)
(* the ledger as it is when the send is answered.  `last` is what the       *)
(* invocation that just returned did: the steps it performed in order, the  *)
(* transaction it built, whether it sent it, and how it ended (an error, a  *)
(* panic, or Ok).  `chain` is the ledger the RPC node serves, `budget` the  *)
(* token-moving transactions the ledger still takes.                        *)
(*                                                                          *)
(* Spec runs two processes at once from an empty ledger, RaceSpec three on  *)
(* one funded account; SeqSpec, CodecSpec and FilledSpec run one process at *)
(* a time, each with wider inputs (see Alone, Paired, Codec, Race), the     *)
(* last on an account that has been deposited to and applied many times.    *)
(*                                                                          *)
(* The build profile is an input of every invocation: a debug build panics  *)
(* on arithmetic overflow and on clap's argument assertions, a release      *)
(* build wraps and skips them.                                              *)
(*                                                                          *)
(* Numbers are u64 values with their real width, written as four 16-bit     *)
(* limbs, least significant first: <<l0, l1, l2, l3>> stands for            *)
(* l0 + l1*2^16 + l2*2^32 + l3*2^48.                                        *)
(*                                                                          *)
(* Code that is not in src/ is modelled from spec.md and named so where it  *)
(* is defined: the ledger program (sections 3, 4.5, 4.6), the cipher and    *)
(* proof primitives (4.3, 4.4), the instruction constructors of the token   *)
(* library (4.5: one action instruction carrying the offsets it was given,  *)
(* or an error), and the signing rule of the SDK (4.5).                     *)
(***************************************************************************)
EXTENDS Integers, Sequences, FiniteSets, Bags, TLC

VARIABLES chain, last, budget, inflight

vars == <<chain, last, budget, inflight>>

----------------------------------------------------------------------------
(* Bounds of the model.                                                     *)

\* operations that move tokens (an external mint-to, a deposit or a withdraw
\* transaction) the ledger takes
MaxMoves == 3

\* rounds of deposit and apply-balance the account of FilledSpec has been
\* through before the first step
FillRounds == 65536

----------------------------------------------------------------------------
(* u64 arithmetic on 16-bit limbs.                                          *)

\* `<< 16` and `& 0xFFFF`: one limb is 16 bits
Limb == 65536

Zero == <<0, 0, 0, 0>>
One == <<1, 0, 0, 0>>
Max16 == <<65535, 0, 0, 0>>
Pow16 == <<0, 1, 0, 0>>
Pow20 == <<0, 16, 0, 0>>
Max48 == <<65535, 65535, 65535, 0>>
Pow48 == <<0, 0, 0, 1>>
Pow50 == <<0, 0, 0, 4>>
U64_MAX == <<65535, 65535, 65535, 65535>>

\* x + y as five limbs: the fifth is the carry out of bit 63
AddFull(x, y) ==
    LET s1 == x[1] + y[1]
        s2 == x[2] + y[2] + (s1 \div Limb)
        s3 == x[3] + y[3] + (s2 \div Limb)
        s4 == x[4] + y[4] + (s3 \div Limb)
    IN  <<s1 % Limb, s2 % Limb, s3 % Limb, s4 % Limb, s4 \div Limb>>

Overflows(x, y) == AddFull(x, y)[5] # 0

\* x + y mod 2^64
WrappingAdd(x, y) == SubSeq(AddFull(x, y), 1, 4)

Gt(x, y) ==
    \/ x[4] > y[4]
    \/ x[4] = y[4] /\ x[3] > y[3]
    \/ x[4] = y[4] /\ x[3] = y[3] /\ x[2] > y[2]
    \/ x[4] = y[4] /\ x[3] = y[3] /\ x[2] = y[2] /\ x[1] > y[1]

Ge(x, y) == x = y \/ Gt(x, y)

\* x - y mod 2^64 (the true difference when x >= y)
WrappingSub(x, y) ==
    LET d1 == x[1] - y[1]
        b1 == IF d1 < 0 THEN 1 ELSE 0
        d2 == x[2] - y[2] - b1
        b2 == IF d2 < 0 THEN 1 ELSE 0
        d3 == x[3] - y[3] - b2
        b3 == IF d3 < 0 THEN 1 ELSE 0
        d4 == x[4] - y[4] - b3
    IN  <<d1 % Limb, d2 % Limb, d3 % Limb, d4 % Limb>>

\* x * 10 as five limbs: the fifth is what passes bit 63
MulTen(x) ==
    LET m1 == x[1] * 10
        m2 == x[2] * 10 + (m1 \div Limb)
        m3 == x[3] * 10 + (m2 \div Limb)
        m4 == x[4] * 10 + (m3 \div Limb)
    IN  <<m1 % Limb, m2 % Limb, m3 % Limb, m4 % Limb, m4 \div Limb>>

\* 10u64.pow(exp): the value mod 2^64 and whether a multiplication overflowed
RECURSIVE TenPow(_)
TenPow(exp) ==
    IF exp = 0 THEN [val |-> One, overflowed |-> FALSE]
    ELSE LET p == TenPow(exp - 1)
             m == MulTen(p.val)
         IN  [val |-> SubSeq(m, 1, 4), overflowed |-> p.overflowed \/ m[5] # 0]

\* a 32-bit mask written for the 16-bit one
And32(x) == << x[1], x[2], 0, 0 >>

\* x & 0xFFFF
And16(x) == <<x[1], 0, 0, 0>>

\* x >> 16
Shr16(x) == <<x[2], x[3], x[4], 0>>

\* x << 16 on u64: the top limb is shifted out
Shl16(x) == <<0, x[1], x[2], x[3]>>

\* a value fits u32
FitsU32(x) == x[3] = 0 /\ x[4] = 0

\* the bitwise or of two 16-bit limbs, and of two u64 values
RECURSIVE Or16(_, _, _)
Or16(a, b, n) ==
    IF n = 0 THEN 0
    ELSE (IF a % 2 = 1 \/ b % 2 = 1 THEN 1 ELSE 0) + 2 * Or16(a \div 2, b \div 2, n - 1)

Or64(x, y) == [i \in 1..4 |-> Or16(x[i], y[i], 16)]

----------------------------------------------------------------------------
(* Identities.                                                              *)

\* signing keypairs a config file or an --owner / --authority path can name
Keys == {"k1", "k2"}
\* addresses a fresh token-account keypair can take
Accts == {"A", "B"}
\* addresses a fresh mint keypair can take
Mints == {"M1", "M2"}

\* values of --decimals (a u8, 9 when not given): 10^9 fits a u64, 10^20 does
\* not, 10^64 is 0 mod 2^64
Decimals == {9, 64}

\* an optional command-line path: None or the keypair the file holds
None == "none"
OptKeys == Keys \cup {None}

----------------------------------------------------------------------------
(* Key derivation, crypto.rs.                                               *)

\* ElGamalKeypair::new_from_signer(signer, b""): a function of the signer only
derive_elgamal_keypair(signer) == [scheme |-> "elgamal", signer |-> signer]

\* AeKey::new_from_signer(signer, b""): a function of the signer only
derive_aes_key(signer) == [scheme |-> "aes", signer |-> signer]

----------------------------------------------------------------------------
(* Cipher and proof primitives of the zk library (spec.md 4.3, 4.4).        *)

Some(v) == [ok |-> TRUE, val |-> v]
Nothing == [ok |-> FALSE, val |-> Zero]

\* debug builds panic on u64 overflow, release builds wrap
Profiles == {"debug", "release"}

\* utils::format_amount: `10u64.pow(decimals)` panics in a debug build when it
\* overflows, and `amount / divisor` panics in every build when the divisor
\* is 0; otherwise a string is returned (its divisor is kept here)
\* 10u64.pow(decimals) of the decimals a mint is created with, computed once
PowersOfTen == [d \in Decimals |-> TenPow(d)]

format_amount(amount, decimals, profile) ==
    LET divisor == IF decimals \in Decimals THEN PowersOfTen[decimals]
                   ELSE TenPow(decimals)
    IN  IF divisor.overflowed /\ profile = "debug" THEN Nothing
        ELSE IF divisor.val = Zero THEN Nothing
        ELSE Some(divisor.val)

\* AeKey::encrypt
AeEncrypt(key, v) == [key |-> key, val |-> v]

\* AeKey::decrypt: the plaintext under the key that made it, else a failure
AeDecrypt(key, ct) == IF ct.key = key THEN Some(ct.val) ELSE Nothing

\* An ElGamal ciphertext: the value its commitment holds, the opening that
\* blinds it and the public key its handle is bound to.  The ledger adds and
\* subtracts public amounts without blinding: opening and key stay the identity.
Identity == [scheme |-> "elgamal", signer |-> "identity"]
NoOpening == "identity"
ElGamalCt(v, opening, pk) == [val |-> v, opening |-> opening, pk |-> pk]

\* PodElGamalCiphertext::zeroed(): the all-zero bytes
ZeroedCt == ElGamalCt(Zero, NoOpening, Identity)

\* the ledger's homomorphic add / subtract of a public amount
CtAdd(ct, v) == [ct EXCEPT !.val = WrappingAdd(ct.val, v)]
CtSub(ct, v) == [ct EXCEPT !.val = WrappingSub(ct.val, v)]

\* ElGamalPubkey::encrypt_with(amount, opening)
EncryptWith(kp, amount, opening) == ElGamalCt(amount, opening, kp)

\* ElGamalSecretKey::decrypt_u32: the discrete log when it is below 2^32 and
\* the handle is the identity or bound to this key, else a failure
decrypt_u32(kp, ct) ==
    IF (ct.pk = Identity \/ ct.pk = kp) /\ FitsU32(ct.val)
    THEN Some(ct.val) ELSE Nothing

\* Pedersen::with(amount, opening)
PedersenWith(amount, opening) == [val |-> amount, opening |-> opening]

\* PubkeyValidityProofData::new
PubkeyValidityProofData(kp) == [kind |-> "pubkey_validity", pubkey |-> kp]

\* CiphertextCommitmentEqualityProofData::new
EqualityProofData(kp, ct, commitment, opening, amount) ==
    [kind |-> "equality", pubkey |-> kp, ct |-> ct,
     commitment |-> commitment, opening |-> opening, amount |-> amount]

\* BatchedRangeProofU64Data::new, one commitment
RangeProofData(commitment, amount, bits, opening) ==
    [kind |-> "range_u64", commitment |-> commitment, amount |-> amount,
     bits |-> bits, opening |-> opening]

\* ProofInstruction::<kind>.encode_verify_proof(None, data)
encode_verify_proof(kind, data) == [kind |-> kind, proof |-> data, signers |-> {}]

----------------------------------------------------------------------------
(* Instruction constructors of the SDK and of the token library.            *)
(* Each instruction names the keys that must sign it.                       *)

\* system_instruction::create_account(from, new, ..)
system_create_account(from, new) ==
    [kind |-> "create_account", from |-> from, new |-> new, signers |-> {from, new}]

\* confidential_transfer::instruction::initialize_mint(mint, None, true, None)
initialize_confidential_mint(mint) ==
    [kind |-> "init_confidential_mint", mint |-> mint,
     auto_approve_new_accounts |-> TRUE, signers |-> {}]

\* spl_token_2022::instruction::initialize_mint(mint, authority, freeze, decimals)
initialize_mint(mint, authority, decimals) ==
    [kind |-> "init_mint", mint |-> mint, authority |-> authority,
     decimals |-> decimals, signers |-> {}]

\* spl_token_2022::instruction::initialize_account(account, mint, owner)
initialize_account(account, mint, owner) ==
    [kind |-> "init_token_account", account |-> account, mint |-> mint,
     owner |-> owner, signers |-> {}]

\* confidential_transfer::instruction::configure_account: the list it returns
configure_account(account, mint, decryptable_zero_balance, max_counter, authority, proof_location) ==
    << [kind |-> "configure_account", account |-> account, mint |-> mint,
        decryptable_zero_balance |-> decryptable_zero_balance,
        maximum_pending_balance_credit_counter |-> max_counter,
        authority |-> authority, proof_offset |-> proof_location.offset,
        signers |-> {authority}] >>

\* confidential_transfer::instruction::deposit
deposit(account, mint, amount, authority) ==
    [kind |-> "deposit", account |-> account, mint |-> mint, amount |-> amount,
     authority |-> authority, signers |-> {authority}]

\* confidential_transfer::instruction::apply_pending_balance
apply_pending_balance(account, expected_counter, new_decryptable, authority) ==
    [kind |-> "apply_pending_balance", account |-> account,
     expected_pending_balance_credit_counter |-> expected_counter,
     new_decryptable_available_balance |-> new_decryptable,
     authority |-> authority, signers |-> {authority}]

\* confidential_transfer::instruction::withdraw: the list it returns
withdraw(account, mint, amount, new_decryptable, authority, equality_location, range_location) ==
    << [kind |-> "withdraw", account |-> account, mint |-> mint, amount |-> amount,
        new_decryptable_available_balance |-> new_decryptable,
        authority |-> authority,
        equality_proof_offset |-> equality_location.offset,
        range_proof_offset |-> range_location.offset,
        signers |-> {authority}] >>

\* ProofLocation::InstructionOffset(offset, data)
InstructionOffset(offset, data) == [offset |-> offset, data |-> data]

\* Transaction::new_with_payer(instructions, Some(payer)), not yet signed
NewTransaction(instructions, fee_payer) ==
    [ixs |-> instructions, fee_payer |-> fee_payer, signed_by |-> {}]

NoTx == NewTransaction(<< >>, None)

RequiredSigners(tx) ==
    {tx.fee_payer} \cup UNION {tx.ixs[i].signers : i \in 1..Len(tx.ixs)}

\* Transaction::sign(keypairs, blockhash) succeeds when the keypairs given
\* are exactly the keys the message requires; it panics otherwise
CanSign(tx, keypairs) == RequiredSigners(tx) = keypairs

----------------------------------------------------------------------------
(* The ledger: token accounts with their confidential-transfer extension    *)
(* (spec.md 3) and the programs that process a transaction (4.5, 4.6).      *)

NoAcct ==
    [stage |-> "absent", mint |-> None, owner |-> None, amount |-> Zero,
     elgamal_pubkey |-> Identity,
     pending_balance_lo |-> ZeroedCt, pending_balance_hi |-> ZeroedCt,
     pending_balance_credit_counter |-> Zero,
     maximum_pending_balance_credit_counter |-> Zero,
     available_balance |-> ZeroedCt,
     decryptable_available_balance |-> AeEncrypt(derive_aes_key(None), Zero)]

NoChain ==
    [accts |-> [a \in Accts |-> NoAcct], mints |-> {}, alloc |-> {},
     decimals |-> [m \in Mints |-> 0]]

Used(ch) == ch.mints \cup ch.alloc \cup {a \in Accts : ch.accts[a].stage # "absent"}

Rejected(ch) == [ok |-> FALSE, ch |-> ch]
Accepted(ch) == [ok |-> TRUE, ch |-> ch]

\* the instruction at a signed offset from position i is a verify of `kind`
ProofAt(tx, i, offset, kind) ==
    /\ i + offset \in 1..Len(tx.ixs)
    /\ tx.ixs[i + offset].kind = kind

\* the proof program verifies a proof: it holds when the statement it was
\* built for is true of the values and openings it was built from
ProofHolds(proof) ==
    IF proof.kind = "equality" THEN
        /\ proof.ct = EncryptWith(proof.pubkey, proof.amount, proof.opening)
        /\ proof.commitment = PedersenWith(proof.amount, proof.opening)
    ELSE IF proof.kind = "range_u64" THEN
        /\ proof.commitment = PedersenWith(proof.amount, proof.opening)
        /\ proof.bits = 64
    ELSE TRUE

\* one instruction of a transaction, processed on the ledger state ch
ProcessInstruction(ch, tx, i) ==
    LET ix == tx.ixs[i]
        k == ix.kind
    IN  IF k = "create_account" THEN
            IF ix.new \in Used(ch) THEN Rejected(ch)
            ELSE Accepted([ch EXCEPT !.alloc = @ \cup {ix.new}])
        ELSE IF k = "init_confidential_mint" THEN
            IF ix.mint \in ch.alloc /\ ix.mint \in Mints THEN Accepted(ch) ELSE Rejected(ch)
        ELSE IF k = "init_mint" THEN
            IF ix.mint \in ch.alloc /\ ix.mint \in Mints
            THEN Accepted([ch EXCEPT !.alloc = @ \ {ix.mint},
                                     !.mints = @ \cup {ix.mint},
                                     !.decimals[ix.mint] = ix.decimals])
            ELSE Rejected(ch)
        ELSE IF k = "init_token_account" THEN
            IF ix.account \in ch.alloc /\ ix.account \in Accts /\ ix.mint \in ch.mints
            THEN Accepted([ch EXCEPT !.alloc = @ \ {ix.account},
                                     !.accts[ix.account] =
                                        [NoAcct EXCEPT !.stage = "initialized",
                                                       !.mint = ix.mint,
                                                       !.owner = ix.owner]])
            ELSE Rejected(ch)
        ELSE IF k = "verify_pubkey_validity" THEN
            Accepted(ch)
        ELSE IF k = "verify_equality" THEN
            IF ProofHolds(ix.proof) THEN Accepted(ch) ELSE Rejected(ch)
        ELSE IF k = "verify_range_u64" THEN
            IF ProofHolds(ix.proof) THEN Accepted(ch) ELSE Rejected(ch)
        ELSE LET acct == ch.accts[ix.account] IN
        IF k = "configure_account" THEN
            IF /\ acct.stage = "initialized"
               /\ acct.mint = ix.mint
               /\ acct.owner = ix.authority
               /\ ProofAt(tx, i, ix.proof_offset, "verify_pubkey_validity")
            THEN Accepted([ch EXCEPT !.accts[ix.account] =
                    [acct EXCEPT
                       !.stage = "configured",
                       !.elgamal_pubkey = tx.ixs[i + ix.proof_offset].proof.pubkey,
                       !.maximum_pending_balance_credit_counter =
                            ix.maximum_pending_balance_credit_counter,
                       !.decryptable_available_balance = ix.decryptable_zero_balance]])
            ELSE Rejected(ch)
        ELSE IF k = "deposit" THEN
            IF /\ acct.stage = "configured"
               /\ acct.mint = ix.mint
               /\ acct.owner = ix.authority
               /\ Ge(acct.amount, ix.amount)
               /\ Ge(Max48, ix.amount)
               /\ Gt(acct.maximum_pending_balance_credit_counter,
                     acct.pending_balance_credit_counter)
            THEN Accepted([ch EXCEPT !.accts[ix.account] =
                    [acct EXCEPT
                       !.amount = WrappingSub(@, ix.amount),
                       !.pending_balance_lo = CtAdd(@, And16(ix.amount)),
                       !.pending_balance_hi = CtAdd(@, Shr16(ix.amount)),
                       !.pending_balance_credit_counter = WrappingAdd(@, One)]])
            ELSE Rejected(ch)
        ELSE IF k = "apply_pending_balance" THEN
            \* spec.md 4.6, 5: the credit counter the instruction carries is
            \* the witness that fences races; an apply whose counter is not
            \* the account's is refused
            IF /\ acct.stage = "configured"
               /\ acct.owner = ix.authority
               /\ acct.pending_balance_credit_counter
                      = ix.expected_pending_balance_credit_counter
            THEN Accepted([ch EXCEPT !.accts[ix.account] =
                    [acct EXCEPT
                       !.available_balance =
                            CtAdd(CtAdd(@, acct.pending_balance_lo.val),
                                  Shl16(acct.pending_balance_hi.val)),
                       !.pending_balance_lo = ZeroedCt,
                       !.pending_balance_hi = ZeroedCt,
                       !.pending_balance_credit_counter = Zero,
                       !.decryptable_available_balance =
                            ix.new_decryptable_available_balance]])
            ELSE Rejected(ch)
        ELSE IF k = "withdraw" THEN
            IF /\ acct.stage = "configured"
               /\ acct.mint = ix.mint
               /\ acct.owner = ix.authority
               /\ ProofAt(tx, i, ix.equality_proof_offset, "verify_equality")
               /\ ProofAt(tx, i, ix.range_proof_offset, "verify_range_u64")
               /\ Ge(acct.available_balance.val, ix.amount)
               /\ ~Overflows(acct.amount, ix.amount)
            THEN Accepted([ch EXCEPT !.accts[ix.account] =
                    [acct EXCEPT
                       !.amount = WrappingAdd(@, ix.amount),
                       !.available_balance = CtSub(@, ix.amount),
                       !.decryptable_available_balance =
                            ix.new_decryptable_available_balance]])
            ELSE Rejected(ch)
        ELSE Rejected(ch)

RECURSIVE ProcessFrom(_, _, _)
ProcessFrom(st, tx, i) ==
    IF ~st.ok \/ i > Len(tx.ixs) THEN st
    ELSE ProcessFrom(ProcessInstruction(st.ch, tx, i), tx, i + 1)

\* a transaction is atomic: every instruction is accepted and every required
\* key has signed, or the ledger is unchanged
ProcessTransaction(ch, tx) ==
    LET st == ProcessFrom(Accepted(ch), tx, 1)
    IN  IF st.ok /\ RequiredSigners(tx) \subseteq tx.signed_by
        THEN st ELSE Rejected(ch)

----------------------------------------------------------------------------
(* What one invocation leaves behind.                                       *)

\* the values a handler computed on its way
NoVals ==
    [available |-> Zero, pending_lo |-> Zero, pending_hi |-> Zero,
     pending |-> Zero, total |-> Zero, new_balance |-> Zero,
     counter |-> Zero, amount_lo |-> Zero, amount_hi |-> Zero]

\* result: "ok" for Ok(()), else the kind of the error the handler returned;
\* events: the steps performed, in order; tx: the transaction built, if any;
\* sent: send_and_confirm_transaction was called; landed: the ledger took it
Out(result, events, tx, sent, landed, vals) ==
    [result |-> result, events |-> events, tx |-> tx, sent |-> sent,
     landed |-> landed, vals |-> vals]

\* an external call that can fail by itself: fail names the one that does
\* ("none": none does), one of the external calls the handler makes:
\* get_account, get_account_to, get_mint, get_rent, initialize_account,
\* build_proof, build_equality_proof, build_range_proof, build_instruction,
\* get_latest_blockhash, send
Has(events, e) == \E i \in 1..Len(events) : events[i] = e

\* a failed send tried a second time
send_transaction_retrying(ch, tx, keypairs, events, fail, vals) ==
    LET e1 == events \o << "get_latest_blockhash", "sign", "send_and_confirm_transaction" >>
        signed == [tx EXCEPT !.signed_by = keypairs]
    IN  IF fail = "get_latest_blockhash" THEN
            Out("rpc_failure", Append(events, "get_latest_blockhash"), tx, FALSE, FALSE, vals)
        ELSE IF ~CanSign(tx, keypairs) THEN
            Out("panic", events \o << "get_latest_blockhash", "sign" >>, tx, FALSE, FALSE, vals)
        ELSE IF fail = "send" \/ ~ProcessTransaction(ch, signed).ok THEN
            Out("rpc_failure", Append(e1, "send_and_confirm_transaction"),
                signed, TRUE, FALSE, vals)
        ELSE Out("ok", e1, signed, TRUE, TRUE, vals)

\* the transaction sent without having been signed
send_transaction_unsigned(ch, tx, keypairs, events, fail, vals) ==
    IF fail = "get_latest_blockhash"
    THEN Out("rpc_failure", Append(events, "get_latest_blockhash"), tx, FALSE, FALSE, vals)
    ELSE Out("rpc_failure",
             events \o << "get_latest_blockhash", "send_and_confirm_transaction" >>,
             tx, TRUE, FALSE, vals)

\* get_latest_blockhash, Transaction::sign, send_and_confirm_transaction:
\* the tail every submitting handler ends with
send_transaction(ch, tx, keypairs, events, fail, vals) ==
    LET e1 == Append(events, "get_latest_blockhash")
        e2 == Append(e1, "sign")
        e3 == Append(e2, "send_and_confirm_transaction")
        signed == [tx EXCEPT !.signed_by = keypairs]
    IN  IF fail = "get_latest_blockhash" THEN
            Out("rpc_failure", e1, tx, FALSE, FALSE, vals)
        ELSE IF ~CanSign(tx, keypairs) THEN
            Out("panic", e2, tx, FALSE, FALSE, vals)
        ELSE IF fail = "send" \/ ~ProcessTransaction(ch, signed).ok THEN
            Out("rpc_failure", e3, signed, TRUE, FALSE, vals)
        ELSE Out("ok", e3, signed, TRUE, TRUE, vals)

----------------------------------------------------------------------------
(* create-mint, commands/create_mint.rs.                                    *)

\* the instruction list of the create-mint transaction
create_mint_instructions(payer, mint_keypair, authority, decimals) ==
    << system_create_account(payer, mint_keypair),
       initialize_confidential_mint(mint_keypair),
       initialize_mint(mint_keypair, authority, decimals) >>

\* the keypairs handed to Transaction::sign
create_mint_signers(payer, mint_keypair) == {payer, mint_keypair}

create_mint_execute(ch, payer, authority_path, decimals, mint_keypair, fail) ==
    LET authority == IF authority_path # None THEN authority_path ELSE payer
        e1 == << "get_rent" >>
        e2 == Append(e1, "build_instruction")
        tx == NewTransaction(
                create_mint_instructions(payer, mint_keypair, authority, decimals), payer)
    IN  IF fail = "get_rent" THEN
            Out("rpc_failure", e1, NoTx, FALSE, FALSE, NoVals)
        ELSE IF fail = "build_instruction" THEN
            Out("instruction_error", e2, NoTx, FALSE, FALSE, NoVals)
        ELSE send_transaction(ch, tx, create_mint_signers(payer, mint_keypair),
                              e2, fail, NoVals)

----------------------------------------------------------------------------
(* create-account, commands/create_account.rs.                              *)

\* NonZero::new(-1i8): the pubkey-validity proof is one instruction back
configure_proof_offset == -1

\* the verify instruction placed first instead of third
create_account_instructions_proof_first(create_ix, init_account_ix, proof_instruction, configure_ixs) ==
    << proof_instruction, create_ix, init_account_ix >> \o configure_ixs

\* the instruction list of the create-account transaction
create_account_instructions(create_ix, init_account_ix, proof_instruction, configure_ixs) ==
    << create_ix, init_account_ix, proof_instruction >> \o configure_ixs

\* the keypairs handed to Transaction::sign
create_account_signers(payer, account_keypair) == {payer, account_keypair}

\* the encryption keys derived from the payer, not from the owner
create_account_execute_payer_keys(ch, payer, mint, owner_path, account_keypair, fail) ==
    LET owner == IF owner_path # None THEN owner_path ELSE payer
        elgamal_keypair == derive_elgamal_keypair(payer)
        aes_key == derive_aes_key(payer)
        e1 == << "derive_keys", "get_rent" >>
        create_ix == system_create_account(payer, account_keypair)
        init_account_ix == initialize_account(account_keypair, mint, owner)
        e2 == Append(e1, "initialize_account")
        decryptable_zero_balance == AeEncrypt(aes_key, Zero)
        pubkey_validity_proof_data == PubkeyValidityProofData(elgamal_keypair)
        e3 == e2 \o << "aes_encrypt", "build_proof" >>
        proof_instruction ==
            encode_verify_proof("verify_pubkey_validity", pubkey_validity_proof_data)
        proof_location ==
            InstructionOffset(configure_proof_offset, pubkey_validity_proof_data)
        configure_ixs ==
            configure_account(account_keypair, mint, decryptable_zero_balance,
                              U64_MAX, owner, proof_location)
        e4 == Append(e3, "build_instruction")
        tx == NewTransaction(
                create_account_instructions(create_ix, init_account_ix,
                                            proof_instruction, configure_ixs),
                payer)
    IN  IF fail = "get_rent" THEN
            Out("rpc_failure", e1, NoTx, FALSE, FALSE, NoVals)
        ELSE IF fail = "initialize_account" THEN
            Out("instruction_error", e2, NoTx, FALSE, FALSE, NoVals)
        ELSE IF fail = "build_proof" THEN
            Out("proof_error", e3, NoTx, FALSE, FALSE, NoVals)
        ELSE IF fail = "build_instruction" THEN
            Out("instruction_error", e4, NoTx, FALSE, FALSE, NoVals)
        ELSE send_transaction(ch, tx, create_account_signers(payer, account_keypair),
                              e4, fail, NoVals)

\* the handler from its rent call on; the constructors that can fail do so
\* where the code calls them: initialize_account, then
\* PubkeyValidityProofData::new, then configure_account
create_account_execute(ch, payer, mint, owner_path, account_keypair, fail) ==
    LET owner == IF owner_path # None THEN owner_path ELSE payer
        elgamal_keypair == derive_elgamal_keypair(owner)
        aes_key == derive_aes_key(owner)
        e1 == << "derive_keys", "get_rent" >>
        create_ix == system_create_account(payer, account_keypair)
        init_account_ix == initialize_account(account_keypair, mint, owner)
        e2 == Append(e1, "initialize_account")
        decryptable_zero_balance == AeEncrypt(aes_key, Zero)
        pubkey_validity_proof_data == PubkeyValidityProofData(elgamal_keypair)
        e3 == e2 \o << "aes_encrypt", "build_proof" >>
        proof_instruction ==
            encode_verify_proof("verify_pubkey_validity", pubkey_validity_proof_data)
        proof_location ==
            InstructionOffset(configure_proof_offset, pubkey_validity_proof_data)
        configure_ixs ==
            configure_account(account_keypair, mint, decryptable_zero_balance,
                              U64_MAX, owner, proof_location)
        e4 == Append(e3, "build_instruction")
        tx == NewTransaction(
                create_account_instructions(create_ix, init_account_ix,
                                            proof_instruction, configure_ixs),
                payer)
    IN  IF fail = "get_rent" THEN
            Out("rpc_failure", e1, NoTx, FALSE, FALSE, NoVals)
        ELSE IF fail = "initialize_account" THEN
            Out("instruction_error", e2, NoTx, FALSE, FALSE, NoVals)
        ELSE IF fail = "build_proof" THEN
            Out("proof_error", e3, NoTx, FALSE, FALSE, NoVals)
        ELSE IF fail = "build_instruction" THEN
            Out("instruction_error", e4, NoTx, FALSE, FALSE, NoVals)
        ELSE send_transaction(ch, tx, create_account_signers(payer, account_keypair),
                              e4, fail, NoVals)

----------------------------------------------------------------------------
(* The account read every handler starts with.                              *)

\* rpc_client.get_account fails by itself or because no account is there
CannotFetch(ch, account, fail, point) ==
    fail = point \/ ch.accts[account].stage = "absent"

\* get_extension::<ConfidentialTransferAccount> finds the extension
HasExtension(acct) == acct.stage = "configured"

\* `if available_balance == zeroed() { 0 } else { aes_key.decrypt(..) }`
decrypt_available(aes_key, ct_account) ==
    IF ct_account.available_balance = ZeroedCt
    THEN Some(Zero)
    ELSE AeDecrypt(aes_key, ct_account.decryptable_available_balance)

\* the steps decrypt_available performs
decrypt_available_events(ct_account) ==
    IF ct_account.available_balance = ZeroedCt THEN << >> ELSE << "aes_decrypt" >>

\* the low part taken as 16 bits wide
combine_pending_masked(lo, hi) == WrappingAdd(And16(lo), Shl16(hi))

\* `|` written for `+`
combine_pending_or(lo, hi) == Or64(lo, Shl16(hi))

\* the high part added without its shift
combine_pending_unshifted(lo, hi) == WrappingAdd(lo, hi)

\* `(pending_balance_lo as u64) + ((pending_balance_hi as u64) << 16)`
combine_pending(lo, hi) == WrappingAdd(lo, Shl16(hi))

----------------------------------------------------------------------------
(* deposit, commands/deposit.rs.                                            *)

\* the keypairs handed to Transaction::sign
deposit_signers(payer) == {payer}

\* rd is the ledger as the handler's fetches saw it, ch the ledger its
\* transaction is sent to
deposit_execute(rd, ch, payer, account, amount, fail, profile) ==
    LET token_account == rd.accts[account]
        e1 == << "get_account" >>
        e2 == Append(e1, "get_mint")
        decimals == rd.decimals[token_account.mint]
        e2f == Append(e2, "format_amount")
        e3 == e2f \o << "derive_keys", "build_instruction" >>
        deposit_ix == deposit(account, token_account.mint, amount, payer)
        tx == NewTransaction(<< deposit_ix >>, payer)
    IN  IF CannotFetch(rd, account, fail, "get_account") THEN
            Out("rpc_failure", e1, NoTx, FALSE, FALSE, NoVals)
        ELSE IF fail = "get_mint" THEN
            Out("rpc_failure", e2, NoTx, FALSE, FALSE, NoVals)
        ELSE IF ~format_amount(amount, decimals, profile).ok THEN
            Out("panic", e2f, NoTx, FALSE, FALSE, NoVals)
        ELSE IF fail = "build_instruction" THEN
            Out("instruction_error", e3, NoTx, FALSE, FALSE, NoVals)
        ELSE send_transaction(ch, tx, deposit_signers(payer), e3, fail, NoVals)

----------------------------------------------------------------------------
(* apply-balance, commands/apply_balance.rs.                                *)

\* the pending balance alone, the current balance forgotten
apply_new_available_balance_pending_only(current_available_balance, pending_balance) ==
    pending_balance

\* `current_available_balance + pending_balance`
apply_new_available_balance(current_available_balance, pending_balance) ==
    WrappingAdd(current_available_balance, pending_balance)

\* the keypairs handed to Transaction::sign
apply_balance_signers(payer) == {payer}

\* the handler's tail without its `pending_balance == 0` return
apply_balance_submit_always(ch, payer, account, ct_account, vals, events, fail, profile) ==
    send_transaction(ch,
        NewTransaction(
            << apply_pending_balance(account, ct_account.pending_balance_credit_counter,
                   AeEncrypt(derive_aes_key(payer),
                             apply_new_available_balance(vals.available, vals.pending)),
                   payer) >>,
            payer),
        apply_balance_signers(payer),
        events \o << "aes_encrypt", "build_instruction" >>, fail, vals)

\* from the pending-balance test to the end of the handler
apply_balance_submit(ch, payer, account, ct_account, vals, events, fail, profile) ==
    LET new_available_balance ==
            apply_new_available_balance(vals.available, vals.pending)
        v2 == [vals EXCEPT !.new_balance = new_available_balance]
        new_decryptable_balance ==
            AeEncrypt(derive_aes_key(payer), new_available_balance)
        e1 == events \o << "aes_encrypt", "build_instruction" >>
        apply_ix ==
            apply_pending_balance(account, ct_account.pending_balance_credit_counter,
                                  new_decryptable_balance, payer)
        tx == NewTransaction(<< apply_ix >>, payer)
    IN  IF vals.pending = Zero THEN
            Out("ok", events, NoTx, FALSE, FALSE, vals)
        ELSE IF Overflows(vals.available, vals.pending) /\ profile = "debug" THEN
            Out("panic", events, NoTx, FALSE, FALSE, vals)
        ELSE IF fail = "build_instruction" THEN
            Out("instruction_error", e1, NoTx, FALSE, FALSE, v2)
        ELSE send_transaction(ch, tx, apply_balance_signers(payer), e1, fail, v2)

\* rd is the ledger as the handler's fetches saw it, ch the ledger its
\* transaction is sent to
apply_balance_execute(rd, ch, payer, account, fail, profile) ==
    LET ct_account == rd.accts[account]
        e1 == << "get_account" >>
        e2 == Append(e1, "get_mint")
        decimals == rd.decimals[ct_account.mint]
        elgamal_keypair == derive_elgamal_keypair(payer)
        aes_key == derive_aes_key(payer)
        e3 == Append(e2, "derive_keys") \o decrypt_available_events(ct_account)
        current_available_balance == decrypt_available(aes_key, ct_account)
        e3f == Append(e3, "format_amount")
        e4 == Append(e3f, "decrypt_pending_lo")
        pending_balance_lo == decrypt_u32(elgamal_keypair, ct_account.pending_balance_lo)
        e5 == Append(e4, "decrypt_pending_hi")
        pending_balance_hi == decrypt_u32(elgamal_keypair, ct_account.pending_balance_hi)
        pending_balance == combine_pending(pending_balance_lo.val, pending_balance_hi.val)
        vals == [NoVals EXCEPT !.available = current_available_balance.val,
                               !.pending_lo = pending_balance_lo.val,
                               !.pending_hi = pending_balance_hi.val,
                               !.pending = pending_balance,
                               !.counter = ct_account.pending_balance_credit_counter]
    IN  IF CannotFetch(rd, account, fail, "get_account") THEN
            Out("rpc_failure", e1, NoTx, FALSE, FALSE, NoVals)
        ELSE IF ~HasExtension(ct_account) THEN
            Out("missing_extension", e1, NoTx, FALSE, FALSE, NoVals)
        ELSE IF fail = "get_mint" THEN
            Out("rpc_failure", e2, NoTx, FALSE, FALSE, NoVals)
        ELSE IF ~current_available_balance.ok THEN
            Out("auth_failure", e3, NoTx, FALSE, FALSE, NoVals)
        ELSE IF ~format_amount(current_available_balance.val, decimals, profile).ok THEN
            Out("panic", e3f, NoTx, FALSE, FALSE, NoVals)
        ELSE IF ~pending_balance_lo.ok THEN
            Out("balance_unsearchable", e4, NoTx, FALSE, FALSE, NoVals)
        ELSE IF ~pending_balance_hi.ok THEN
            Out("balance_unsearchable", e5, NoTx, FALSE, FALSE, NoVals)
        ELSE apply_balance_submit(ch, payer, account, ct_account, vals, e5, fail, profile)

----------------------------------------------------------------------------
(* balance, commands/balance.rs.                                            *)

balance_execute(ch, payer, account, fail, profile) ==
    LET ct_account == ch.accts[account]
        e1 == << "get_account" >>
        e2 == Append(e1, "get_mint")
        decimals == ch.decimals[ct_account.mint]
        elgamal_keypair == derive_elgamal_keypair(payer)
        aes_key == derive_aes_key(payer)
        e3 == Append(e2, "derive_keys") \o decrypt_available_events(ct_account)
        available_balance == decrypt_available(aes_key, ct_account)
        e3f == Append(e3, "format_amount")
        e4 == Append(e3f, "decrypt_pending_lo")
        pending_balance_lo == decrypt_u32(elgamal_keypair, ct_account.pending_balance_lo)
        e5 == Append(e4, "decrypt_pending_hi")
        pending_balance_hi == decrypt_u32(elgamal_keypair, ct_account.pending_balance_hi)
        pending_balance == combine_pending(pending_balance_lo.val, pending_balance_hi.val)
        total_balance == WrappingAdd(available_balance.val, pending_balance)
        vals == [NoVals EXCEPT !.available = available_balance.val,
                               !.pending_lo = pending_balance_lo.val,
                               !.pending_hi = pending_balance_hi.val,
                               !.pending = pending_balance,
                               !.total = total_balance,
                               !.counter = ct_account.pending_balance_credit_counter]
    IN  IF CannotFetch(ch, account, fail, "get_account") THEN
            Out("rpc_failure", e1, NoTx, FALSE, FALSE, NoVals)
        ELSE IF ~HasExtension(ct_account) THEN
            Out("missing_extension", e1, NoTx, FALSE, FALSE, NoVals)
        ELSE IF fail = "get_mint" THEN
            Out("rpc_failure", e2, NoTx, FALSE, FALSE, NoVals)
        ELSE IF ~available_balance.ok THEN
            Out("auth_failure", e3, NoTx, FALSE, FALSE, NoVals)
        ELSE IF ~format_amount(available_balance.val, decimals, profile).ok THEN
            Out("panic", e3f, NoTx, FALSE, FALSE, NoVals)
        ELSE IF ~pending_balance_lo.ok THEN
            Out("balance_unsearchable", e4, NoTx, FALSE, FALSE, NoVals)
        ELSE IF ~pending_balance_hi.ok THEN
            Out("balance_unsearchable", e5, NoTx, FALSE, FALSE, NoVals)
        ELSE IF Overflows(available_balance.val, pending_balance) /\ profile = "debug" THEN
            Out("panic", e5, NoTx, FALSE, FALSE, vals)
        ELSE Out("ok", e5, NoTx, FALSE, FALSE, vals)

----------------------------------------------------------------------------
(* withdraw, commands/withdraw.rs.                                          *)

\* NonZero::new(-2i8): the equality proof is two instructions back
equality_proof_offset == -2
\* NonZero::new(-1i8): the range proof is one instruction back
range_proof_offset == -1
\* vec![64]: the bit length of the range proof
range_bit_length == 64

\* Pedersen::new(amount): a commitment under an opening drawn inside
PedersenNew(amount, drawn) == << PedersenWith(amount, drawn), drawn >>

\* `>=` written for `>`: a withdrawal of the whole balance is refused
withdraw_insufficient_or_equal(amount, current_available_balance) ==
    Ge(amount, current_available_balance)

\* `amount > current_available_balance`: the client-side balance test
withdraw_insufficient(amount, current_available_balance) ==
    Gt(amount, current_available_balance)

\* the two verify instructions in the other order
withdraw_instructions_swapped(equality_proof_instruction, range_proof_instruction, withdraw_ixs) ==
    << range_proof_instruction, equality_proof_instruction >> \o withdraw_ixs

\* `vec![equality, range]` extended by the withdraw instructions
withdraw_instructions(equality_proof_instruction, range_proof_instruction, withdraw_ixs) ==
    << equality_proof_instruction, range_proof_instruction >> \o withdraw_ixs

\* the keypairs handed to Transaction::sign
withdraw_signers(payer) == {payer}

\* from the proofs to the end of the handler
withdraw_submit(ch, payer, account, token_account, amount, vals, events, fail) ==
    LET elgamal_keypair == derive_elgamal_keypair(payer)
        aes_key == derive_aes_key(payer)
        new_available_balance == vals.new_balance
        opening == "r1"
        withdrawal_ct == EncryptWith(elgamal_keypair, amount, opening)
        commitment == PedersenWith(amount, opening)
        equality_proof_data ==
            EqualityProofData(elgamal_keypair, withdrawal_ct, commitment, opening, amount)
        new_balance_opening == "r2"
        new_balance_commitment == PedersenNew(new_available_balance, "r3")[1]
        range_proof_data ==
            RangeProofData(new_balance_commitment, new_available_balance,
                           range_bit_length, new_balance_opening)
        e0 == Append(events, "build_equality_proof")
        e1 == Append(e0, "build_range_proof")
        equality_proof_instruction ==
            encode_verify_proof("verify_equality", equality_proof_data)
        range_proof_instruction ==
            encode_verify_proof("verify_range_u64", range_proof_data)
        new_decryptable_balance == AeEncrypt(aes_key, new_available_balance)
        e2 == e1 \o << "aes_encrypt", "build_instruction" >>
        withdraw_ixs ==
            withdraw(account, token_account.mint, amount, new_decryptable_balance, payer,
                     InstructionOffset(equality_proof_offset, equality_proof_data),
                     InstructionOffset(range_proof_offset, range_proof_data))
        tx == NewTransaction(
                withdraw_instructions(equality_proof_instruction,
                                      range_proof_instruction, withdraw_ixs),
                payer)
    IN  IF fail = "build_equality_proof" THEN
            Out("proof_error", e0, NoTx, FALSE, FALSE, vals)
        ELSE IF fail = "build_range_proof" THEN
            Out("proof_error", e1, NoTx, FALSE, FALSE, vals)
        ELSE IF fail = "build_instruction" THEN
            Out("instruction_error", e2, NoTx, FALSE, FALSE, vals)
        ELSE send_transaction(ch, tx, withdraw_signers(payer), e2, fail, vals)

\* rd is the ledger as the handler's fetches saw it, ch the ledger its
\* transaction is sent to
withdraw_execute(rd, ch, payer, account, amount, fail, profile) ==
    LET token_account == rd.accts[account]
        e1 == << "get_account" >>
        e2 == Append(e1, "get_mint")
        decimals == rd.decimals[token_account.mint]
        e2f == Append(e2, "format_amount")
        aes_key == derive_aes_key(payer)
        e3 == Append(e2f, "derive_keys") \o decrypt_available_events(token_account)
        current_available_balance == decrypt_available(aes_key, token_account)
        e4 == Append(e3, "check_balance")
        v1 == [NoVals EXCEPT !.available = current_available_balance.val]
        new_available_balance == WrappingSub(current_available_balance.val, amount)
        v2 == [v1 EXCEPT !.new_balance = new_available_balance]
    IN  IF CannotFetch(rd, account, fail, "get_account") THEN
            Out("rpc_failure", e1, NoTx, FALSE, FALSE, NoVals)
        ELSE IF ~HasExtension(token_account) THEN
            Out("missing_extension", e1, NoTx, FALSE, FALSE, NoVals)
        ELSE IF fail = "get_mint" THEN
            Out("rpc_failure", e2, NoTx, FALSE, FALSE, NoVals)
        ELSE IF ~format_amount(amount, decimals, profile).ok THEN
            Out("panic", e2f, NoTx, FALSE, FALSE, NoVals)
        ELSE IF ~current_available_balance.ok THEN
            Out("auth_failure", e3, NoTx, FALSE, FALSE, NoVals)
        ELSE IF withdraw_insufficient(amount, current_available_balance.val) THEN
            Out("insufficient_balance", e4, NoTx, FALSE, FALSE, v1)
        ELSE withdraw_submit(ch, payer, account, token_account, amount, v2, e4, fail)

----------------------------------------------------------------------------
(* confidential-transfer, commands/transfer.rs.                             *)

\* `(1u64 << 48) - 1`
MAX_TRANSFER_AMOUNT == WrappingSub(Pow48, One)

\* a stub that goes on to send a transfer transaction
transfer_validate_sending(amount, available_balance, events) ==
    Out("ok",
        events \o << "check_balance", "check_range", "build_instruction",
                     "get_latest_blockhash", "sign", "send_and_confirm_transaction" >>,
        NewTransaction(<< [kind |-> "transfer", amount |-> amount, signers |-> {}] >>, None),
        TRUE, FALSE, NoVals)

\* from the balance test to the end of the handler
transfer_validate(amount, available_balance, events) ==
    LET e1 == Append(events, "check_balance")
        e2 == Append(e1, "check_range")
        e3 == e2 \o << "explain", "split_amount" >>
        v1 == [NoVals EXCEPT !.available = available_balance]
        v2 == [v1 EXCEPT !.amount_lo = And16(amount),
                         !.amount_hi = Shr16(amount),
                         !.new_balance = WrappingSub(available_balance, amount)]
    IN  IF Gt(amount, available_balance) THEN
            Out("insufficient_balance", e1, NoTx, FALSE, FALSE, v1)
        ELSE IF Gt(amount, MAX_TRANSFER_AMOUNT) THEN
            Out("amount_out_of_range", e2, NoTx, FALSE, FALSE, v1)
        ELSE Out("ok", e3, NoTx, FALSE, FALSE, v2)

\* from the mint fetch to the end of the handler
transfer_prepare(from_ct_account, decimals, payer, amount, events, fail, profile) ==
    LET e1 == Append(events, "get_mint")
        e1f == Append(e1, "format_amount")
        aes_key == derive_aes_key(payer)
        e2 == Append(e1f, "derive_keys") \o decrypt_available_events(from_ct_account)
        available_balance == decrypt_available(aes_key, from_ct_account)
    IN  IF fail = "get_mint" THEN
            Out("rpc_failure", e1, NoTx, FALSE, FALSE, NoVals)
        ELSE IF ~format_amount(amount, decimals, profile).ok THEN
            Out("panic", e1f, NoTx, FALSE, FALSE, NoVals)
        ELSE IF ~available_balance.ok THEN
            Out("auth_failure", e2, NoTx, FALSE, FALSE, NoVals)
        ELSE transfer_validate(amount, available_balance.val, e2)

\* the keys derived and the balance decrypted before the mints are compared
transfer_verify_same_mint_late(from_token_account, to_token_account, decimals, payer, amount, events, fail, profile) ==
    IF from_token_account.mint # to_token_account.mint
    THEN Out("mint_mismatch",
             events \o << "get_mint", "derive_keys", "aes_decrypt", "check_mint" >>,
             NoTx, FALSE, FALSE, NoVals)
    ELSE transfer_prepare(from_token_account, decimals, payer, amount,
                          Append(events, "check_mint"), fail, profile)

\* `if from.mint != to.mint { bail!(..) }` and what follows it
transfer_verify_same_mint(from_token_account, to_token_account, decimals, payer, amount, events, fail, profile) ==
    IF from_token_account.mint # to_token_account.mint
    THEN Out("mint_mismatch", Append(events, "check_mint"), NoTx, FALSE, FALSE, NoVals)
    ELSE transfer_prepare(from_token_account, decimals, payer, amount,
                          Append(events, "check_mint"), fail, profile)

\* rd_from is the ledger as the fetch of `from` saw it, rd_to the ledger as
\* the fetch of `to` and the fetch of the mint after it saw it
transfer_execute(rd_from, rd_to, payer, from, to, amount, fail, profile) ==
    LET from_token_account == rd_from.accts[from]
        to_token_account == rd_to.accts[to]
        e1 == << "get_account" >>
        e2 == Append(e1, "get_account_to")
    IN  IF CannotFetch(rd_from, from, fail, "get_account") THEN
            Out("rpc_failure", e1, NoTx, FALSE, FALSE, NoVals)
        ELSE IF CannotFetch(rd_to, to, fail, "get_account_to") THEN
            Out("rpc_failure", e2, NoTx, FALSE, FALSE, NoVals)
        ELSE IF ~HasExtension(from_token_account) \/ ~HasExtension(to_token_account) THEN
            Out("missing_extension", e2, NoTx, FALSE, FALSE, NoVals)
        ELSE transfer_verify_same_mint(from_token_account, to_token_account,
                                       rd_to.decimals[from_token_account.mint],
                                       payer, amount, e2, fail, profile)

----------------------------------------------------------------------------
(* The dispatcher, commands/mod.rs, and the state machine.                  *)
(* A process is started with one command (main.rs) and runs its handler;    *)
(* the handler is suspended at every RPC call it awaits, and a step of the  *)
(* model is the answer to one awaited call followed by the handler's own    *)
(* code up to its next call or to its return.  `inflight` holds the         *)
(* handlers that are suspended, each with what its calls have returned so   *)
(* far; steps of different processes interleave freely.  `last` is what     *)
(* the step just taken returned to its caller, NoInvocation when the step   *)
(* left its handler suspended.                                              *)

\* amounts a --amount argument is drawn from: 2^48 - 1, whose low 16 bits and
\* whose high 32 bits are all ones, and 2^48, one more
DepositAmounts == {Max48}
WithdrawAmounts == {Max48, Pow48}
TransferAmounts == {Max48, Pow48}
\* amounts the external mint-to credits to an account's public balance
MintAmounts == {Pow50}

\* processes that run at the same time
Procs == {"p1", "p2"}

\* Keypair::new(): an address nothing on the ledger uses yet
FreshIn(ch, order) ==
    LET free == {i \in 1..Len(order) : order[i] \notin Used(ch)}
    IN  IF free = {} THEN None
        ELSE order[CHOOSE i \in free : \A j \in free : i <= j]

\* the invocation: command, config payer, arguments, the account data its
\* first fetch was answered with, and what it did
Invocation(cmd, payer, account, to, amount, path, fetched, out) ==
    [cmd |-> cmd, payer |-> payer, account |-> account, to |-> to,
     amount |-> amount, path |-> path, fetched |-> fetched, out |-> out]

NoInvocation ==
    Invocation("none", None, None, None, Zero, None, NoAcct,
               Out("ok", << >>, NoTx, FALSE, FALSE, NoVals))

\* Cli::parse() of a debug build checks the subcommand it was given: deposit
\* and withdraw declare the short flag -a twice, and the check panics
cli_parse_panics(cmd, profile) ==
    profile = "debug" /\ cmd \in {"deposit", "withdraw"}

\* the commands of the Commands enum
Commands ==
    {"create-mint", "create-account", "deposit", "apply-balance",
     "confidential-transfer", "withdraw", "balance"}

\* the commands whose transaction moves tokens between the public and the
\* confidential balance
Moving == {"deposit", "withdraw"}

\* a suspended handler: the call it was last answered (stage), its command,
\* the accounts its command line names, and what its fetches returned
Flight(stage, cmd, account, to, from_acct, to_acct, decimals) ==
    [stage |-> stage, cmd |-> cmd, account |-> account, to |-> to,
     from_acct |-> from_acct, to_acct |-> to_acct, decimals |-> decimals]

\* what a process is started with besides the accounts: the payer of its
\* config file, the rest of its command line and the profile of its build
Args(payer, amount, path, decimals, mint, profile) ==
    [payer |-> payer, amount |-> amount, path |-> path, decimals |-> decimals,
     mint |-> mint, profile |-> profile]

\* the part of the input space one specification explores: the processes
\* that may run at once, the payers their config files name, the decimals
\* create-mint is given, the accounts and amounts commands are given, and
\* whether RPC calls and instruction constructors may fail by themselves
Scope(procs, payers, decimals, accts, deposits, withdraws, transfers, faults) ==
    [procs |-> procs, payers |-> payers, decimals |-> decimals, accts |-> accts,
     deposits |-> deposits, withdraws |-> withdraws, transfers |-> transfers,
     faults |-> faults]

\* one process at a time, with every payer and every number of decimals
Alone ==
    Scope({"p1"}, Keys, Decimals, Accts,
          DepositAmounts, WithdrawAmounts, TransferAmounts, TRUE)

\* two processes at once, both configured with the payer k1, their commands
\* naming the first account created, on mints of 9 decimals, every external
\* call answered
Paired ==
    Scope(Procs, {"k1"}, {9}, {"A"},
          DepositAmounts, WithdrawAmounts, TransferAmounts, FALSE)

\* the result of the last return has been collected
Idle == last.cmd = "none"

\* a process can be started
Room(sc) == BagCardinality(inflight) < Cardinality(sc.procs)

\* builds in which Cli::parse hands cmd to its handler
ProfilesOf(cmd) == {profile \in Profiles : ~cli_parse_panics(cmd, profile)}

ArgsOf(sc, cmd) ==
    IF cmd = "create-mint" THEN
        {Args(payer, Zero, authority, decimals, None, profile) :
            payer \in sc.payers, authority \in OptKeys, decimals \in sc.decimals,
            profile \in ProfilesOf(cmd)}
    ELSE IF cmd = "create-account" THEN
        {Args(payer, Zero, owner, 0, mint, profile) :
            payer \in sc.payers, owner \in OptKeys, mint \in Mints,
            profile \in ProfilesOf(cmd)}
    ELSE
        {Args(payer, amount, None, 0, None, profile) :
            payer \in sc.payers,
            amount \in (IF cmd = "deposit" THEN sc.deposits
                        ELSE IF cmd = "withdraw" THEN sc.withdraws
                        ELSE IF cmd = "confidential-transfer" THEN sc.transfers
                        ELSE {Zero}),
            profile \in ProfilesOf(cmd)}

\* the handlers of cmd a step can resume: those suspended at `prev`, or, for
\* the first call of a handler, a process started now
Pending(sc, cmd, prev) ==
    IF prev # "start" THEN {f \in BagToSet(inflight) : f.cmd = cmd /\ f.stage = prev}
    ELSE IF cmd \in {"create-mint", "create-account"} THEN
        {Flight("start", cmd, None, None, NoAcct, NoAcct, 0)}
    ELSE IF cmd = "confidential-transfer" THEN
        {Flight("start", cmd, from, to, NoAcct, NoAcct, 0) : from \in sc.accts, to \in sc.accts}
    ELSE
        {Flight("start", cmd, account, None, NoAcct, NoAcct, 0) : account \in sc.accts}

\* the handler f with the answer to the call `point` it awaited: the ledger
\* is read when the call is answered
Answered(f, point) ==
    IF point = "get_account" THEN
        [f EXCEPT !.stage = point, !.from_acct = chain.accts[f.account]]
    ELSE IF point = "get_account_to" THEN
        [f EXCEPT !.stage = point, !.to_acct = chain.accts[f.to]]
    ELSE IF point = "get_mint" THEN
        [f EXCEPT !.stage = point, !.decimals = chain.decimals[f.from_acct.mint]]
    ELSE [f EXCEPT !.stage = point]

\* the mint's decimals are known to f
HasMint(f) == f.stage \in {"get_mint", "get_latest_blockhash"}

\* the ledger as the fetches of f returned it: the account it fetched first
\* and the decimals of its mint
SeenFrom(f) ==
    LET c == [chain EXCEPT !.accts[f.account] = f.from_acct]
    IN  IF HasMint(f) THEN [c EXCEPT !.decimals[f.from_acct.mint] = f.decimals] ELSE c

\* the ledger as the transfer's second fetch and its mint fetch returned it
SeenTo(f) ==
    LET c == [chain EXCEPT !.accts[f.to] = f.to_acct]
    IN  IF HasMint(f) THEN [c EXCEPT !.decimals[f.from_acct.mint] = f.decimals] ELSE c

\* the keypair a create command generates, Keypair::new(): a fresh address,
\* which gets the first name the ledger has not used when it is looked at
NewKeypair(cmd) ==
    IF cmd = "create-mint" THEN FreshIn(chain, << "M1", "M2" >>)
    ELSE FreshIn(chain, << "A", "B" >>)

\* handle_command: the handler of f.cmd run on what f has fetched, its
\* transaction, if it sends one, going to the ledger as it is now
handle_command(f, a, fail) ==
    IF f.cmd = "create-mint" THEN
        create_mint_execute(chain, a.payer, a.path, a.decimals, NewKeypair(f.cmd), fail)
    ELSE IF f.cmd = "create-account" THEN
        create_account_execute(chain, a.payer, a.mint, a.path, NewKeypair(f.cmd), fail)
    ELSE IF f.cmd = "deposit" THEN
        deposit_execute(SeenFrom(f), chain, a.payer, f.account, a.amount, fail, a.profile)
    ELSE IF f.cmd = "apply-balance" THEN
        apply_balance_execute(SeenFrom(f), chain, a.payer, f.account, fail, a.profile)
    ELSE IF f.cmd = "withdraw" THEN
        withdraw_execute(SeenFrom(f), chain, a.payer, f.account, a.amount, fail, a.profile)
    ELSE IF f.cmd = "balance" THEN
        balance_execute(SeenFrom(f), a.payer, f.account, fail, a.profile)
    ELSE transfer_execute(SeenFrom(f), SeenTo(f), a.payer, f.account, f.to,
                          a.amount, fail, a.profile)

\* the record of the invocation that returned; a handler whose first fetch
\* failed has fetched nothing, one that found no confidential extension in
\* the account has fetched it
Returned(f, a, out) ==
    IF f.cmd = "create-mint" THEN
        Invocation(f.cmd, a.payer, NewKeypair(f.cmd), None, Zero, a.path, NoAcct, out)
    ELSE IF f.cmd = "create-account" THEN
        Invocation(f.cmd, a.payer, NewKeypair(f.cmd), a.mint, Zero, a.path, NoAcct, out)
    ELSE Invocation(f.cmd, a.payer, f.account, f.to, a.amount, None,
                    IF out.events = << "get_account" >> /\ out.result = "rpc_failure"
                    THEN NoAcct ELSE f.from_acct, out)

\* the constructors of cmd that return a Result the handler propagates
Constructors(cmd) ==
    IF cmd = "create-account" THEN {"initialize_account", "build_proof", "build_instruction"}
    ELSE IF cmd = "withdraw" THEN
        {"build_equality_proof", "build_range_proof", "build_instruction"}
    ELSE {"build_instruction"}

\* the failures a call can end in by itself: its own, and that of the
\* constructors run before the block-hash call
Faults(sc, cmd, point, next) ==
    IF ~sc.faults THEN {"none"}
    ELSE IF next = "get_latest_blockhash" THEN {"none", point} \cup Constructors(cmd)
    ELSE {"none", point}

\* the suspended handlers once f has gone on as g
Resumed(f, g) ==
    IF f.stage = "start" THEN inflight (+) SetToBag({g})
    ELSE (inflight (-) SetToBag({f})) (+) SetToBag({g})

\* the suspended handlers once f has returned
Without(f) ==
    IF f.stage = "start" THEN inflight ELSE inflight (-) SetToBag({f})

\* the ledger after the invocation: changed only by a transaction that landed
Ledger(ch, out) == IF out.landed THEN ProcessTransaction(ch, out.tx).ch ELSE ch

\* the moves the ledger may still take: a transaction that moves tokens lands
\* only while one is left
Spend(out) == IF out.landed THEN budget - 1 ELSE budget

\* One awaited call that reads the ledger or nothing: a handler of cmd that
\* was suspended at `prev` (or is started) is answered the call `point`, and
\* runs on to its next call `next`, where it is suspended again, or to its
\* return.  The payer, the build and the arguments other than the accounts
\* are not kept with the suspended handler: each step takes those of a run
\* that, on the same fetches, has come as far as the step.
Await(sc, cmd, prev, point, next) ==
    \E f \in Pending(sc, cmd, prev), goes_on \in BOOLEAN :
        LET g == Answered(f, point)
        IN  /\ Idle
            /\ prev = "start" => Room(sc)
            /\ cmd \in {"create-mint", "create-account"} => NewKeypair(cmd) # None
            /\ IF goes_on
               THEN /\ \E a \in ArgsOf(sc, cmd) :
                        Has(handle_command(g, a, "none").events, next)
                    /\ inflight' = Resumed(f, g)
                    /\ last' = NoInvocation
               ELSE \E a \in ArgsOf(sc, cmd), fail \in Faults(sc, cmd, point, next) :
                        LET out == handle_command(g, a, fail)
                        IN  /\ Has(out.events, point)
                            /\ ~Has(out.events, next)
                            /\ inflight' = Without(f)
                            /\ last' = Returned(g, a, out)
            /\ UNCHANGED <<chain, budget>>

\* send_and_confirm_transaction is answered: the transaction built from what
\* the handler fetched is processed by the ledger as it is now, and the
\* handler returns
Send(sc, cmd) ==
    \E f \in Pending(sc, cmd, "get_latest_blockhash"), a \in ArgsOf(sc, cmd),
       fail \in Faults(sc, cmd, "send", "return") :
        LET out == handle_command(f, a, fail)
        IN  /\ Idle
            /\ cmd \in {"create-mint", "create-account"} => NewKeypair(cmd) # None
            /\ Has(out.events, "send_and_confirm_transaction")
            /\ (cmd \in Moving /\ out.landed) => budget > 0
            /\ inflight' = Without(f)
            /\ last' = Returned(f, a, out)
            /\ chain' = Ledger(chain, out)
            /\ budget' = IF cmd \in Moving THEN Spend(out) ELSE budget

\* nothing on the ledger, no process started
Init ==
    /\ chain = NoChain
    /\ last = NoInvocation
    /\ budget = MaxMoves
    /\ inflight = EmptyBag

\* a debug build given deposit or withdraw: the process panics in main
\* before an argument is parsed, the config is loaded or the handler is
\* called
CliParsePanic(sc) ==
    \E cmd \in Commands, profile \in Profiles :
        /\ Idle
        /\ Room(sc)
        /\ cli_parse_panics(cmd, profile)
        /\ last' = Invocation(cmd, None, None, None, Zero, None, NoAcct,
                              Out("panic", << >>, NoTx, FALSE, FALSE, NoVals))
        /\ UNCHANGED <<chain, budget, inflight>>

\* create-mint: get_minimum_balance_for_rent_exemption, get_latest_blockhash,
\* send_and_confirm_transaction
CreateMintGetRent(sc) == Await(sc, "create-mint", "start", "get_rent", "get_latest_blockhash")
CreateMintGetBlockhash(sc) ==
    Await(sc, "create-mint", "get_rent", "get_latest_blockhash", "send_and_confirm_transaction")
CreateMintSend(sc) == Send(sc, "create-mint")

\* create-account: the same three calls
CreateAccountGetRent(sc) == Await(sc, "create-account", "start", "get_rent", "get_latest_blockhash")
CreateAccountGetBlockhash(sc) ==
    Await(sc, "create-account", "get_rent", "get_latest_blockhash", "send_and_confirm_transaction")
CreateAccountSend(sc) == Send(sc, "create-account")

\* deposit: get_account(account), get_account(mint), get_latest_blockhash,
\* send_and_confirm_transaction
DepositGetAccount(sc) == Await(sc, "deposit", "start", "get_account", "get_mint")
DepositGetMint(sc) == Await(sc, "deposit", "get_account", "get_mint", "get_latest_blockhash")
DepositGetBlockhash(sc) ==
    Await(sc, "deposit", "get_mint", "get_latest_blockhash", "send_and_confirm_transaction")
DepositSend(sc) == Send(sc, "deposit")

\* apply-balance: the same four calls
ApplyGetAccount(sc) == Await(sc, "apply-balance", "start", "get_account", "get_mint")
ApplyGetMint(sc) == Await(sc, "apply-balance", "get_account", "get_mint", "get_latest_blockhash")
ApplyGetBlockhash(sc) ==
    Await(sc, "apply-balance", "get_mint", "get_latest_blockhash", "send_and_confirm_transaction")
ApplySend(sc) == Send(sc, "apply-balance")

\* withdraw: the same four calls
WithdrawGetAccount(sc) == Await(sc, "withdraw", "start", "get_account", "get_mint")
WithdrawGetMint(sc) == Await(sc, "withdraw", "get_account", "get_mint", "get_latest_blockhash")
WithdrawGetBlockhash(sc) ==
    Await(sc, "withdraw", "get_mint", "get_latest_blockhash", "send_and_confirm_transaction")
WithdrawSend(sc) == Send(sc, "withdraw")

\* balance: get_account(account), get_account(mint), then it returns
BalanceGetAccount(sc) == Await(sc, "balance", "start", "get_account", "get_mint")
BalanceGetMint(sc) == Await(sc, "balance", "get_account", "get_mint", "return")

\* confidential-transfer: get_account(from), get_account(to),
\* get_account(mint), then it returns
TransferGetAccount(sc) ==
    Await(sc, "confidential-transfer", "start", "get_account", "get_account_to")
TransferGetAccountTo(sc) ==
    Await(sc, "confidential-transfer", "get_account", "get_account_to", "get_mint")
TransferGetMint(sc) == Await(sc, "confidential-transfer", "get_account_to", "get_mint", "return")

\* the ledger once another tool's mint-to of `amount` to `account` has landed
MintedTo(ch, account, amount) ==
    [ch EXCEPT !.accts[account].amount = WrappingAdd(@, amount)]

\* the environment: the transaction of another tool that mints public tokens
\* to a token account lands
MintTo(sc) ==
    \E account \in sc.accts, amount \in MintAmounts :
        /\ Idle
        /\ budget > 0
        /\ chain.accts[account].stage = "configured"
        /\ ~Overflows(chain.accts[account].amount, amount)
        /\ chain' = MintedTo(chain, account, amount)
        /\ budget' = budget - 1
        /\ last' = NoInvocation
        /\ UNCHANGED inflight

\* main returns what the handler returned and the process exits; its result
\* is collected before the next step is looked at
Exit ==
    /\ ~Idle
    /\ last' = NoInvocation
    /\ UNCHANGED <<chain, budget, inflight>>

\* every command of the CLI, in the processes sc allows at once
Steps(sc) ==
    \/ CliParsePanic(sc)
    \/ CreateMintGetRent(sc)
    \/ CreateMintGetBlockhash(sc)
    \/ CreateMintSend(sc)
    \/ CreateAccountGetRent(sc)
    \/ CreateAccountGetBlockhash(sc)
    \/ CreateAccountSend(sc)
    \/ DepositGetAccount(sc)
    \/ DepositGetMint(sc)
    \/ DepositGetBlockhash(sc)
    \/ DepositSend(sc)
    \/ ApplyGetAccount(sc)
    \/ ApplyGetMint(sc)
    \/ ApplyGetBlockhash(sc)
    \/ ApplySend(sc)
    \/ WithdrawGetAccount(sc)
    \/ WithdrawGetMint(sc)
    \/ WithdrawGetBlockhash(sc)
    \/ WithdrawSend(sc)
    \/ BalanceGetAccount(sc)
    \/ BalanceGetMint(sc)
    \/ TransferGetAccount(sc)
    \/ TransferGetAccountTo(sc)
    \/ TransferGetMint(sc)
    \/ MintTo(sc)
    \/ Exit

\* one process at a time: each handler returns before the next process starts
SeqNext == Steps(Alone)

SeqSpec == Init /\ [][SeqNext]_vars

Next == Steps(Paired)

Spec == Init /\ [][Next]_vars

----------------------------------------------------------------------------
(* The balance codec on its own: one funded account and amounts chosen for   *)
(* the split into a 16-bit low part and a 32-bit high part.                  *)

\* amounts around the limb boundary: 1, 2^16 - 1, 2^16, 2^20, 2^48 - 1
CodecAmounts == {One, Max16, Pow16, Pow20, Max48}

\* k1 has created mint M1 with the default 9 decimals and its account A, and
\* another tool has minted 2^50 public tokens to A
CodecLedger ==
    LET c1 == Ledger(NoChain, create_mint_execute(NoChain, "k1", None, 9, "M1", "none"))
        c2 == Ledger(c1, create_account_execute(c1, "k1", "M1", None, "A", "none"))
    IN  [c2 EXCEPT !.accts["A"].amount = Pow50]

\* one process at a time on account A, no call failing by itself
Codec ==
    Scope({"p1"}, Keys, Decimals, {"A"}, CodecAmounts, CodecAmounts, CodecAmounts, FALSE)

CodecInit ==
    /\ chain = CodecLedger
    /\ last = NoInvocation
    /\ budget = MaxMoves
    /\ inflight = EmptyBag

CodecNext ==
    \/ DepositGetAccount(Codec)
    \/ DepositGetMint(Codec)
    \/ DepositGetBlockhash(Codec)
    \/ DepositSend(Codec)
    \/ ApplyGetAccount(Codec)
    \/ ApplyGetMint(Codec)
    \/ ApplyGetBlockhash(Codec)
    \/ ApplySend(Codec)
    \/ BalanceGetAccount(Codec)
    \/ BalanceGetMint(Codec)
    \/ TransferGetAccount(Codec)
    \/ TransferGetAccountTo(Codec)
    \/ TransferGetMint(Codec)
    \/ Exit

CodecSpec == CodecInit /\ [][CodecNext]_vars

----------------------------------------------------------------------------
(* Processes racing on the funded account: deposits, apply-balances and      *)
(* balances of up to three processes, every step of one interleaved with     *)
(* the steps of the others.                                                   *)

RaceProcs == {"p1", "p2", "p3"}

RaceAmounts == {Max48}

Race ==
    Scope(RaceProcs, Keys, Decimals, {"A"}, RaceAmounts, RaceAmounts, RaceAmounts, FALSE)

RaceNext ==
    \/ DepositGetAccount(Race)
    \/ DepositGetMint(Race)
    \/ DepositGetBlockhash(Race)
    \/ DepositSend(Race)
    \/ ApplyGetAccount(Race)
    \/ ApplyGetMint(Race)
    \/ ApplyGetBlockhash(Race)
    \/ ApplySend(Race)
    \/ BalanceGetAccount(Race)
    \/ BalanceGetMint(Race)
    \/ Exit

RaceSpec == CodecInit /\ [][RaceNext]_vars

----------------------------------------------------------------------------
(* An account in long use.  Nothing in spec.md or in src/ bounds what other  *)
(* tools mint to an account over time or what an account has taken in: the   *)
(* ledger refuses a deposit only for want of public tokens, for an amount    *)
(* over 2^48 - 1 or for a full credit counter.  The account of FilledSpec    *)
(* is what the handlers themselves make of account A in FillRounds rounds.   *)

\* one round on account A, run by its owner k1 in a release build: when the
\* public balance is below 2^48 - 1 another tool mints 2^50 to it, then
\* `deposit --amount 281474976710655` and `apply-balance` run and land
Round(ch) ==
    LET c1 == IF Ge(ch.accts["A"].amount, Max48) THEN ch ELSE MintedTo(ch, "A", Pow50)
        c2 == Ledger(c1, deposit_execute(c1, c1, "k1", "A", Max48, "none", "release"))
    IN  Ledger(c2, apply_balance_execute(c2, c2, "k1", "A", "none", "release"))

\* n rounds, one after the other (computed by halves)
RECURSIVE Rounds(_, _)
Rounds(ch, n) ==
    IF n = 0 THEN ch
    ELSE IF n = 1 THEN Round(ch)
    ELSE LET half == Rounds(ch, n \div 2)
         IN  IF half.mints # {} THEN Rounds(half, n - (n \div 2)) ELSE half

\* the ledger after FillRounds rounds on the account of CodecLedger
FilledInit ==
    /\ chain = Rounds(CodecLedger, FillRounds)
    /\ last = NoInvocation
    /\ budget = MaxMoves
    /\ inflight = EmptyBag

FilledNext ==
    \/ DepositGetAccount(Codec)
    \/ DepositGetMint(Codec)
    \/ DepositGetBlockhash(Codec)
    \/ DepositSend(Codec)
    \/ ApplyGetAccount(Codec)
    \/ ApplyGetMint(Codec)
    \/ ApplyGetBlockhash(Codec)
    \/ ApplySend(Codec)
    \/ BalanceGetAccount(Codec)
    \/ BalanceGetMint(Codec)
    \/ MintTo(Codec)
    \/ Exit

FilledSpec == FilledInit /\ [][FilledNext]_vars

----------------------------------------------------------------------------
(* Properties.                                                              *)

Kinds(tx) == [i \in 1..Len(tx.ixs) |-> tx.ixs[i].kind]

\* the positions of the instructions of one kind
Positions(tx, kind) == {i \in 1..Len(tx.ixs) : tx.ixs[i].kind = kind}

Submitted(cmd) == last.cmd = cmd /\ last.out.sent

\* C1: a withdraw that reaches submission hands the transaction exactly
\* [verify_equality, verify_range_u64, withdraw], and the offsets the withdraw
\* instruction carries, -2 and -1, are the positions of the two verify
\* instructions relative to the withdraw instruction.
C1_WithdrawRecipe ==
    Submitted("withdraw") =>
        LET tx == last.out.tx
        IN  /\ Kinds(tx) = << "verify_equality", "verify_range_u64", "withdraw" >>
            /\ \A w \in Positions(tx, "withdraw") :
                /\ tx.ixs[w].equality_proof_offset = -2
                /\ tx.ixs[w].range_proof_offset = -1
                /\ Positions(tx, "verify_equality") = {w + tx.ixs[w].equality_proof_offset}
                /\ Positions(tx, "verify_range_u64") = {w + tx.ixs[w].range_proof_offset}

\* a withdraw that handed its three instructions to send_and_confirm_transaction
C1_Witness ==
    /\ Submitted("withdraw")
    /\ Has(last.out.events, "send_and_confirm_transaction")
    /\ Len(last.out.tx.ixs) = 3

\* C2: a create-account that reaches submission hands the transaction exactly
\* [create_account, init_token_account, verify_pubkey_validity,
\* configure_account]; the offset configure_account carries, -1, is the
\* position of the verify instruction relative to it, so the verify instruction
\* is immediately before configure_account.
C2_CreateAccountRecipe ==
    Submitted("create-account") =>
        LET tx == last.out.tx
        IN  /\ Kinds(tx) = << "create_account", "init_token_account",
                              "verify_pubkey_validity", "configure_account" >>
            /\ \A c \in Positions(tx, "configure_account") :
                /\ tx.ixs[c].proof_offset = -1
                /\ Positions(tx, "verify_pubkey_validity") = {c + tx.ixs[c].proof_offset}
                /\ c > 1
                /\ tx.ixs[c - 1].kind = "verify_pubkey_validity"

\* a create-account whose transaction the ledger took
C2_Witness == Submitted("create-account") /\ last.out.landed

\* every action instruction of tx finds its proofs at the offsets it carries
OffsetsMatch(tx) ==
    /\ \A w \in Positions(tx, "withdraw") :
        /\ ProofAt(tx, w, tx.ixs[w].equality_proof_offset, "verify_equality")
        /\ ProofAt(tx, w, tx.ixs[w].range_proof_offset, "verify_range_u64")
    /\ \A c \in Positions(tx, "configure_account") :
        ProofAt(tx, c, tx.ixs[c].proof_offset, "verify_pubkey_validity")

\* C3: before a transaction with proof offsets is sent, the handler
\* cross-checks the offsets against the final instruction list, and a plan
\* whose offsets do not match is rejected with an error and never sent.
C3_CrossCheckBeforeSubmit ==
    LET tx == last.out.tx
        carries == Positions(tx, "withdraw") \cup Positions(tx, "configure_account")
    IN  /\ (last.out.sent /\ carries # {}) => Has(last.out.events, "cross_check_offsets")
        /\ ~OffsetsMatch(tx) => (~last.out.sent /\ last.out.result # "ok")

\* C4: with b the decrypted available balance and a the requested amount,
\* withdraw ends with insufficient_balance exactly when a > b, and then no
\* proof was built and nothing was sent; with a = b it is not refused, the new
\* balance is 0 and the handler goes on to send unless an external call fails.
C4_InsufficientBalance ==
    (last.cmd = "withdraw" /\ Has(last.out.events, "check_balance")) =>
        LET a == last.amount
            b == last.out.vals.available
            out == last.out
        IN  /\ (out.result = "insufficient_balance") <=> Gt(a, b)
            /\ out.result = "insufficient_balance" =>
                /\ ~Has(out.events, "build_equality_proof")
                /\ ~Has(out.events, "build_range_proof")
                /\ ~Has(out.events, "send_and_confirm_transaction")
                /\ ~out.sent
                /\ Len(out.tx.ixs) = 0
            /\ a = b =>
                /\ out.vals.new_balance = Zero
                /\ out.sent \/ out.result \in {"proof_error", "instruction_error", "rpc_failure"}
                /\ out.sent =>
                    \A w \in Positions(out.tx, "withdraw") :
                        out.tx.ixs[w].new_decryptable_available_balance.val = Zero
            /\ a = WrappingAdd(b, One) /\ ~Overflows(b, One) =>
                out.result = "insufficient_balance"

\* a withdrawal of the whole, non-zero balance that was sent
C4_Witness ==
    /\ Submitted("withdraw")
    /\ last.amount = last.out.vals.available
    /\ last.amount # Zero
    /\ last.out.vals.new_balance = Zero

\* C5: between invocations and after each of them, the decryptable available
\* balance of every account decrypts under its owner's key to the value the
\* ElGamal available balance encodes.
C5_DecryptableMatchesAvailable ==
    \A a \in Accts :
        chain.accts[a].stage = "configured" =>
            AeDecrypt(derive_aes_key(chain.accts[a].owner),
                      chain.accts[a].decryptable_available_balance)
                = Some(chain.accts[a].available_balance.val)

\* an account whose available balance was already non-zero has taken a
\* second apply-balance
C5_Witness ==
    /\ Submitted("apply-balance") /\ last.out.landed
    /\ last.out.vals.available # Zero
    /\ chain.accts[last.account].available_balance.val # Zero

\* what balance reports to the owner of account a on ledger ch
Reports(ch, a, available, pending, counter) ==
    LET out == balance_execute(ch, ch.accts[a].owner, a, "none", "release")
    IN  /\ out.result = "ok"
        /\ out.vals.available = available
        /\ out.vals.pending = pending
        /\ out.vals.counter = counter

FreshAccount(ch, a) ==
    /\ ch.accts[a].stage = "configured"
    /\ ch.accts[a].available_balance = ZeroedCt
    /\ ch.accts[a].pending_balance_lo = ZeroedCt
    /\ ch.accts[a].pending_balance_hi = ZeroedCt
    /\ ch.accts[a].pending_balance_credit_counter = Zero

\* a fresh account that took one deposit of x
DepositedOnce(ch, a, x) ==
    /\ ch.accts[a].stage = "configured"
    /\ ch.accts[a].available_balance = ZeroedCt
    /\ ch.accts[a].pending_balance_lo = CtAdd(ZeroedCt, And16(x))
    /\ ch.accts[a].pending_balance_hi = CtAdd(ZeroedCt, Shr16(x))
    /\ ch.accts[a].pending_balance_credit_counter = One

Landed(inv, cmd, a) == inv.cmd = cmd /\ inv.account = a /\ inv.out.landed

\* C6: on a fresh account a deposit of x makes balance report available 0,
\* pending x, counter 1; the apply-balance that follows makes it report
\* available x, pending 0, counter 0.
C6_DepositThenApply ==
    [][\A a \in Accts, x \in DepositAmounts :
        /\ (FreshAccount(chain, a) /\ Landed(last', "deposit", a) /\ last'.amount = x)
                => Reports(chain', a, Zero, x, One)
        /\ (DepositedOnce(chain, a, x) /\ Landed(last', "apply-balance", a))
                => Reports(chain', a, x, Zero, Zero)]_vars

\* the apply-balance that followed the first deposit has landed
C6_Witness ==
    /\ last.cmd = "apply-balance" /\ last.out.landed
    /\ last.out.vals.available = Zero
    /\ last.out.vals.counter = One
    /\ last.out.vals.pending \in DepositAmounts
    /\ Reports(chain, last.account, last.out.vals.pending, Zero, Zero)

\* nothing pending and no credit counted: the account after an apply-balance
\* with no deposit since
SettledAccount(acct) ==
    /\ acct.stage = "configured"
    /\ acct.pending_balance_lo = ZeroedCt
    /\ acct.pending_balance_hi = ZeroedCt
    /\ acct.pending_balance_credit_counter = Zero

Settled(ch, a) == SettledAccount(ch.accts[a])

\* the balances and the credit counter of an account
Balances(acct) ==
    << acct.available_balance, acct.decryptable_available_balance,
       acct.pending_balance_lo, acct.pending_balance_hi,
       acct.pending_balance_credit_counter >>

\* C7: an apply-balance that lands leaves pending balance and credit counter
\* zero; an apply-balance that fetched an account in that state sends nothing,
\* and one that returns when the account is in that state leaves available,
\* decryptable available, pending balance and counter as they were.
C7_ApplyIdempotent ==
    [][\A a \in Accts :
        /\ Landed(last', "apply-balance", a) => Settled(chain', a)
        /\ (last'.cmd = "apply-balance" /\ last'.account = a) =>
            /\ SettledAccount(last'.fetched) => ~last'.out.sent
            /\ Settled(chain, a) => Balances(chain'.accts[a]) = Balances(chain.accts[a])]_vars

\* a second apply-balance by the owner: available is no longer the zero
\* ciphertext, nothing is pending, and the handler returned Ok without sending
C7_Witness ==
    /\ last.cmd = "apply-balance" /\ last.out.result = "ok" /\ ~last.out.sent
    /\ last.payer = chain.accts[last.account].owner
    /\ Settled(chain, last.account)
    /\ chain.accts[last.account].available_balance # ZeroedCt

\* C8: a confidential-transfer of 2^48 or more ends with amount_out_of_range
\* whatever the sender's available balance; one of 2^48 - 1 that the balance
\* covers passes the range test and reaches the stub.
C8_RangeRejection ==
    (last.cmd = "confidential-transfer" /\ Has(last.out.events, "check_balance")) =>
        /\ Ge(last.amount, Pow48) => last.out.result = "amount_out_of_range"
        /\ (last.amount = Max48 /\ Ge(last.out.vals.available, last.amount)) =>
                (last.out.result = "ok" /\ Has(last.out.events, "split_amount"))

\* C9: a confidential-transfer between two accounts of different mints ends
\* with mint_mismatch, and no key was derived and nothing decrypted before.
C9_MintMismatchFirst ==
    (/\ last.cmd = "confidential-transfer"
     /\ Has(last.out.events, "get_account_to")
     /\ chain.accts[last.account].stage = "configured"
     /\ chain.accts[last.to].stage = "configured"
     /\ last.out.result # "rpc_failure"
     /\ chain.accts[last.account].mint # chain.accts[last.to].mint) =>
        /\ last.out.result = "mint_mismatch"
        /\ ~Has(last.out.events, "derive_keys")
        /\ ~Has(last.out.events, "aes_decrypt")
        /\ ~Has(last.out.events, "decrypt_pending_lo")
        /\ ~Has(last.out.events, "decrypt_pending_hi")

\* a transfer refused for its mints
C9_Witness ==
    /\ last.cmd = "confidential-transfer"
    /\ last.out.result = "mint_mismatch"
    /\ chain.accts[last.account].mint # chain.accts[last.to].mint

\* C10: no confidential-transfer and no balance builds, signs or sends a
\* transaction, and neither changes the ledger.
C10_NoTransaction ==
    last.cmd \in {"confidential-transfer", "balance"} =>
        /\ Len(last.out.tx.ixs) = 0
        /\ ~last.out.sent
        /\ ~last.out.landed
        /\ ~Has(last.out.events, "build_instruction")
        /\ ~Has(last.out.events, "sign")
        /\ ~Has(last.out.events, "send_and_confirm_transaction")

\* a transfer that passed every validation and reached the stub
C10_Witness ==
    /\ last.cmd = "confidential-transfer"
    /\ last.out.result = "ok"
    /\ Has(last.out.events, "split_amount")

\* C11: a confidential-transfer that passed the mint, balance and range tests
\* ends with the error unsupported_operation, not with success.
C11_StubIsAnError ==
    (/\ last.cmd = "confidential-transfer"
     /\ Has(last.out.events, "check_mint")
     /\ Has(last.out.events, "check_range")
     /\ ~Gt(last.amount, MAX_TRANSFER_AMOUNT)
     /\ ~Gt(last.amount, last.out.vals.available)) =>
        last.out.result = "unsupported_operation"

\* lo + hi * 2^16 for two values below 2^32, limb by limb with its carries
SumLoHi(lo, hi) ==
    LET s2 == lo[2] + hi[1]
        s3 == hi[2] + (s2 \div Limb)
    IN  << lo[1], s2 % Limb, s3 % Limb, s3 \div Limb >>

\* balance or apply-balance has decrypted both pending parts
Recombined ==
    /\ last.cmd \in {"balance", "apply-balance"}
    /\ Has(last.out.events, "decrypt_pending_hi")
    /\ last.out.result # "balance_unsearchable"

\* C12 as stated: the pending balance balance and apply-balance compute from
\* the decrypted parts (lo, hi) is u64(lo) | (u64(hi) << 16), also for
\* lo >= 2^16.
C12_RecombineIsOr ==
    Recombined =>
        last.out.vals.pending
            = Or64(last.out.vals.pending_lo, Shl16(last.out.vals.pending_hi))

\* C12 amended: the pending balance computed from (lo, hi) is the sum
\* u64(lo) + (u64(hi) << 16); it is the bitwise or when lo < 2^16.
C12_RecombineIsSum ==
    Recombined =>
        LET lo == last.out.vals.pending_lo
            hi == last.out.vals.pending_hi
        IN  /\ FitsU32(lo) /\ FitsU32(hi)
            /\ last.out.vals.pending = SumLoHi(lo, hi)
            /\ lo[2] = 0 => last.out.vals.pending = Or64(lo, Shl16(hi))

\* a low part of 2^16 or more recombined with a high part whose bit 0 is set
C12_Witness ==
    /\ Recombined
    /\ last.out.vals.pending_lo[2] % 2 = 1
    /\ last.out.vals.pending_hi[1] % 2 = 1

\* C13: splitting an amount below 2^48 as the transfer does (lo = x & 0xFFFF,
\* hi = x >> 16) and recombining as balance and apply-balance do gives x back;
\* recombining a low part below 2^16 with a high part below 2^32 and then
\* splitting gives the two parts back.
C13_SplitRecombineInverse ==
    /\ (last.cmd = "confidential-transfer" /\ Has(last.out.events, "split_amount")) =>
        LET lo == last.out.vals.amount_lo
            hi == last.out.vals.amount_hi
        IN  /\ lo[2] = 0 /\ lo[3] = 0 /\ lo[4] = 0
            /\ FitsU32(hi)
            /\ combine_pending(lo, hi) = last.amount
    /\ (Recombined /\ last.out.vals.pending_lo[2] = 0) =>
        /\ And16(last.out.vals.pending) = last.out.vals.pending_lo
        /\ Shr16(last.out.vals.pending) = last.out.vals.pending_hi

\* the stub has split 2^48 - 1, whose two parts are both all ones
C13_Witness ==
    /\ last.cmd = "confidential-transfer"
    /\ Has(last.out.events, "split_amount")
    /\ last.amount = Max48
    /\ last.out.vals.amount_lo = Max16
    /\ last.out.vals.amount_hi # Zero

\* C14: in balance, apply-balance, withdraw and confidential-transfer an
\* ElGamal ciphertext field of the account that is all zero bytes is decoded
\* as 0 with no decrypt call made for it.
C14_ZeroShortcut ==
    (/\ last.cmd \in {"balance", "apply-balance", "withdraw", "confidential-transfer"}
     /\ Has(last.out.events, "derive_keys")) =>
        LET acct == last.fetched
        IN  /\ acct.available_balance = ZeroedCt =>
                (~Has(last.out.events, "aes_decrypt") /\ last.out.vals.available = Zero)
            /\ acct.pending_balance_lo = ZeroedCt =>
                ~Has(last.out.events, "decrypt_pending_lo")
            /\ acct.pending_balance_hi = ZeroedCt =>
                ~Has(last.out.events, "decrypt_pending_hi")

\* the keypairs of the accounts a transaction creates with system::create_account
CreatedIn(tx) == {tx.ixs[i].new : i \in Positions(tx, "create_account")}

\* C15: every transaction handed to send_and_confirm_transaction is signed by
\* exactly the fee payer and the keypairs of the accounts it creates:
\* {payer, mint keypair} for create-mint, {payer, account keypair} for
\* create-account, {payer} for deposit, apply-balance and withdraw.
C15_Signers ==
    last.out.sent =>
        LET tx == last.out.tx
        IN  /\ tx.fee_payer = last.payer
            /\ tx.signed_by = {tx.fee_payer} \cup CreatedIn(tx)
            /\ last.cmd \in {"create-mint", "create-account"} =>
                    tx.signed_by = {last.payer, last.account}
            /\ last.cmd \in {"deposit", "apply-balance", "withdraw"} =>
                    tx.signed_by = {last.payer}

\* a create-mint for a mint authority that is not the payer was sent
C15_Witness ==
    /\ Submitted("create-mint")
    /\ last.path \notin {None, last.payer}
    /\ Cardinality(last.out.tx.signed_by) = 2

\* how many times a step was performed
Count(events, e) == Cardinality({i \in 1..Len(events) : events[i] = e})

\* the calls to the RPC node
RpcCalls ==
    {"get_account", "get_account_to", "get_mint", "get_rent",
     "get_latest_blockhash", "send_and_confirm_transaction"}

Submitting == {"create-mint", "create-account", "deposit", "apply-balance", "withdraw"}

\* C16 as stated: every create-mint, create-account, deposit, apply-balance
\* or withdraw that returns success has submitted exactly one transaction.
C16_OneTransactionOnSuccess ==
    (last.cmd \in Submitting /\ last.out.result = "ok") =>
        Count(last.out.events, "send_and_confirm_transaction") = 1

\* C16 amended: a success has submitted exactly one transaction, except an
\* apply-balance that found nothing pending, which has submitted none; an
\* error has submitted at most one; no RPC call is made twice, and nothing
\* follows an RPC call that failed.
C16_AtMostOneTransaction ==
    last.cmd \in Submitting =>
        LET out == last.out
            sends == Count(out.events, "send_and_confirm_transaction")
        IN  /\ out.sent <=> sends = 1
            /\ sends <= 1
            /\ out.result = "ok" =>
                \/ sends = 1
                \/ /\ last.cmd = "apply-balance"
                   /\ out.vals.pending = Zero
                   /\ sends = 0
            /\ (last.cmd = "apply-balance" /\ out.result = "ok" /\ sends = 0) =>
                    out.vals.pending = Zero
            /\ \A c \in RpcCalls : Count(out.events, c) <= 1
            /\ out.result = "rpc_failure" => out.events[Len(out.events)] \in RpcCalls

\* a withdraw whose block-hash fetch failed: nothing was submitted
C16_Witness ==
    /\ last.cmd = "withdraw"
    /\ last.out.result = "rpc_failure"
    /\ Has(last.out.events, "get_latest_blockhash")
    /\ ~last.out.sent

\* C17: the commitment to the post-withdrawal balance that withdraw gives to
\* the range proof was made with the opening it gives alongside: commitment,
\* value and opening of the range proof are consistent.
C17_RangeProofOpening ==
    last.cmd = "withdraw" =>
        \A i \in Positions(last.out.tx, "verify_range_u64") :
            LET proof == last.out.tx.ixs[i].proof
            IN  /\ proof.amount = last.out.vals.new_balance
                /\ proof.commitment.val = proof.amount
                /\ proof.commitment.opening = proof.opening

\* what balance prints for the owner of account a on ledger ch
OwnerReport(ch, a) == balance_execute(ch, ch.accts[a].owner, a, "none", "release")

\* C18: deposits that follow one another with no apply-balance in between
\* add up: from nothing pending, each deposit of x that lands adds x mod 2^16
\* to the low part, x >> 16 to the high part and x to the pending balance that
\* balance reports, as long as both parts stay below 2^32.
C18_PendingAccumulates ==
    [][\A a \in Accts :
        /\ FreshAccount(chain, a) => Reports(chain, a, Zero, Zero, Zero)
        /\ (Landed(last', "deposit", a) /\ OwnerReport(chain', a).result = "ok") =>
            LET x == last'.amount
                before == OwnerReport(chain, a)
                after == OwnerReport(chain', a)
            IN  /\ before.result = "ok"
                /\ after.vals.pending_lo
                        = WrappingAdd(before.vals.pending_lo, << x[1], 0, 0, 0 >>)
                /\ after.vals.pending_hi
                        = WrappingAdd(before.vals.pending_hi, << x[2], x[3], x[4], 0 >>)
                /\ after.vals.pending = WrappingAdd(before.vals.pending, x)
                /\ after.vals.available = before.vals.available
                /\ after.vals.counter = WrappingAdd(before.vals.counter, One)]_vars

\* balance reports 1 + 2^16 + 2^20 pending after three deposits
C18_Witness ==
    /\ last.cmd = "balance" /\ last.out.result = "ok"
    /\ last.out.vals.counter = << 3, 0, 0, 0 >>
    /\ last.out.vals.available = Zero
    /\ last.out.vals.pending_lo = One
    /\ last.out.vals.pending_hi = << 17, 0, 0, 0 >>
    /\ last.out.vals.pending = << 1, 17, 0, 0 >>

\* C19: when a deposit by another process lands between apply-balance's read
\* of the account and its send, the credit counter the instruction carries
\* fences the race: afterwards the decryptable available balance still
\* decrypts to what the available balance encodes.
C19_CounterFencesRace ==
    (last.cmd = "apply-balance" /\ last.out.sent) =>
        LET acct == chain.accts[last.account]
        IN  AeDecrypt(derive_aes_key(acct.owner), acct.decryptable_available_balance)
                = Some(acct.available_balance.val)

\* balance, apply-balance or withdraw has derived its keys for an account
\* that create-account configured
DerivedKeysFor(inv) ==
    /\ inv.cmd \in {"balance", "apply-balance", "withdraw"}
    /\ Has(inv.out.events, "derive_keys")
    /\ inv.fetched.stage = "configured"

\* the keys the invocation derived are those bound to the account it fetched
SameKeysAsBound(inv) ==
    /\ derive_elgamal_keypair(inv.payer) = inv.fetched.elgamal_pubkey
    /\ derive_aes_key(inv.payer) = inv.fetched.decryptable_available_balance.key

SignedWith ==
    IF last.cmd = "create-mint" THEN create_mint_signers(last.payer, last.account)
    ELSE IF last.cmd = "create-account" THEN create_account_signers(last.payer, last.account)
    ELSE IF last.cmd = "deposit" THEN deposit_signers(last.payer)
    ELSE IF last.cmd = "apply-balance" THEN apply_balance_signers(last.payer)
    ELSE withdraw_signers(last.payer)

\* C21: in every transaction an operation signs, each key an instruction
\* requires as its authority or as a newly created account is among the keys
\* the transaction is signed with, also for create-account with an --owner
\* keypair other than the payer.
C21_AuthoritiesSign ==
    (last.cmd \in Submitting /\ Has(last.out.events, "sign")) =>
        \A i \in 1..Len(last.out.tx.ixs) :
            last.out.tx.ixs[i].signers \subseteq SignedWith

\* C22: in apply-balance and in balance the 64-bit sum available + pending
\* never exceeds 2^64 - 1: the handler does not panic on it and the new
\* available balance apply-balance encrypts, and the total balance reports,
\* is the integer sum and not a wrapped value.
C22_SumNeverWraps ==
    (last.cmd \in {"apply-balance", "balance"} /\ last.out.vals # NoVals) =>
        /\ ~Overflows(last.out.vals.available, last.out.vals.pending)
        /\ last.out.result # "panic"
        /\ Submitted("apply-balance") =>
                /\ Ge(last.out.vals.new_balance, last.out.vals.available)
                /\ Ge(last.out.vals.new_balance, last.out.vals.pending)
        /\ (last.cmd = "balance" /\ last.out.result = "ok") =>
                Ge(last.out.vals.total, last.out.vals.available)

====
